---- MODULE Spec2Model ----
(***************************************************************************)
(* Model of the maintenance work-order service (src/main.py): the          *)
(* per-property spreadsheet store behind the request handlers, the greedy  *)
(* word wrap of the report renderer, and the load/save steps of handlers   *)
(* served by several worker processes.                                     *)
(*                                                                         *)
(* Strings are sequences of pieces, concatenated with \o.  The piece " "   *)
(* is white space, " / " is the separator literal of line 126.  A cell of  *)
(* the sheet holds a string, a date <<y, m, d>> or None.                   *)
(***************************************************************************)
EXTENDS Integers, Sequences, FiniteSets, TLC

VARIABLES files,     \* property code -> the store file on disk, or NoFile
          prev,      \* files as they were before the last request
          req,       \* the last request
          resp,      \* its response
          nreq,      \* the number of requests handled so far
          words,         \* the renderer's words of one work-order text
          word_index,    \* the number of them the loop of line 247 has taken
          current_line,  \* its current_line
          lines,         \* its lines
          wrapped,       \* the renderer has passed line 256
          handlers,      \* the requests in the hands of the worker processes
          history        \* their loads and saves of the store, in order

vars == <<files, prev, req, resp, nreq,
          words, word_index, current_line, lines, wrapped,
          handlers, history>>

wrapVars == <<words, word_index, current_line, lines, wrapped>>
workerVars == <<handlers, history>>
requestVars == <<prev, req, resp, nreq>>

-----------------------------------------------------------------------------
(* Bounds of the model *)

MaxRequests == 2
MaxList == 2

-----------------------------------------------------------------------------
(* Values *)

\* Python's None as a cell value: no string is equal to it.
None == <<"<None>">>

NoFile == [exists |-> FALSE]

\* str(cell.value), lines 119, 125, 163, 307, 308, 349, 388.
Str(v) == IF v = None THEN <<"None">> ELSE v

RECURSIVE LStrip(_)
LStrip(s) == IF s # <<>> /\ Head(s) = " " THEN LStrip(Tail(s)) ELSE s

RECURSIVE RStrip(_)
RStrip(s) == IF s # <<>> /\ s[Len(s)] = " " THEN RStrip(SubSeq(s, 1, Len(s) - 1)) ELSE s

\* str.strip()
Strip(s) == RStrip(LStrip(s))

\* [x.strip() for x in s.split(",")]: the comma-separated string is given by
\* its items, of which split(",") yields at least one.
SplitStrip(items) == [i \in 1..Len(items) |-> Strip(items[i])]

\* A date string is the sequence of its "-"-separated numeric fields, each
\* with its number of digits w and its value n.
Field(w, n) == [w |-> w, n |-> n]

IsLeap(y) == (y % 4 = 0 /\ y % 100 # 0) \/ y % 400 = 0

DaysIn(y, m) ==
    IF m \in {4, 6, 9, 11} THEN 30
    ELSE IF m = 2 THEN (IF IsLeap(y) THEN 29 ELSE 28)
    ELSE 31

\* datetime.strptime(s, "%Y-%m-%d") succeeds: %Y is four digits, %m and %d
\* one or two digits, and the fields name a day of the calendar.
StrptimeOk(s) ==
    /\ Len(s) = 3
    /\ s[1].w = 4 /\ s[1].n >= 1
    /\ s[2].w \in {1, 2} /\ s[2].n \in 1..12
    /\ s[3].w \in {1, 2} /\ s[3].n \in 1..DaysIn(s[1].n, s[2].n)

\* The datetime strptime returns (midnight of that day).
Strptime(s) == <<s[1].n, s[2].n, s[3].n>>

\* format_cell_date on a datetime: strftime("%Y-%m-%d").
format_cell_date(d) == <<Field(4, d[1]), Field(2, d[2]), Field(2, d[3])>>

-----------------------------------------------------------------------------
(* The workbook *)

\* The file ensure_excel_file writes: the header row (five columns, so that
\* every row read back has a "Best Room" cell) and no record.
NewWorkbook == [exists |-> TRUE, rows |-> <<>>]

\* ensure_excel_file: the file is created, header only, when it is absent.
ensure_excel_file(f) == IF f.exists THEN f ELSE NewWorkbook

\* wb.save then load_workbook: a cell holding "" is written as an empty
\* cell and read back as None.
SaveCell(v) == IF v = <<>> THEN None ELSE v

SaveRow(r) ==
    [room |-> SaveCell(r.room), text |-> SaveCell(r.text), date |-> r.date,
     status |-> SaveCell(r.status), best |-> SaveCell(r.best)]

SaveWorkbook(wb) == [wb EXCEPT !.rows = [i \in 1..Len(wb.rows) |-> SaveRow(wb.rows[i])]]

\* The first row whose room cell reads as `room`, 0 when there is none.
RECURSIVE FindFrom(_, _, _)
FindFrom(rows, room, i) ==
    IF i > Len(rows) THEN 0
    ELSE IF Str(rows[i].room) = room THEN i
    ELSE FindFrom(rows, room, i + 1)

FindRow(rows, room) == FindFrom(rows, room, 1)

DeleteRow(rows, i) == SubSeq(rows, 1, i - 1) \o SubSeq(rows, i + 1, Len(rows))

-----------------------------------------------------------------------------
(* The request handlers.  Each yields the HTTPException its body raises    *)
(* (0: none) and the file it leaves on disk.                               *)

\* A key the JSON body does not hold.
Absent == <<"<absent>">>

\* data.get(key, default)
Get(v, default) == IF v = Absent THEN default ELSE v

\* Python truth of a request field or a cell value.
Truthy(v) == v # <<>> /\ v # Absent /\ v # None

\* Lines 117-136: one (room, text) pair of create_work_order.
ProcessPair(rows, room, text, date) ==
    LET i == FindRow(rows, room) IN
    IF i # 0
    THEN [rows EXCEPT ![i].text = Str(@) \o <<" / ">> \o text, ![i].date = date]
    ELSE Append(rows, [room |-> room, text |-> text, date |-> date,
                       status |-> <<"Pending">>, best |-> None])

\* Lines 115-136: the pairs k, k+1, ... of zip(rooms, texts), in order.
RECURSIVE ProcessPairs(_, _, _, _, _)
ProcessPairs(rows, rooms, texts, date, k) ==
    IF k > Len(rooms) \/ k > Len(texts) THEN rows
    ELSE ProcessPairs(ProcessPair(rows, rooms[k], texts[k], date), rooms, texts, date, k + 1)

\* create_work_order with the file got or created (line 110) before the
\* inputs are validated.
create_work_order_eager(f, rq) ==
    LET room_numbers_list == SplitStrip(rq.room_numbers)
        work_orders_list == SplitStrip(rq.work_orders)
        wb == ensure_excel_file(f)
    IN  IF Len(room_numbers_list) # Len(work_orders_list)
        THEN [raised |-> 400, file |-> wb]
        ELSE IF ~StrptimeOk(rq.completion_date)
        THEN [raised |-> 400, file |-> wb]
        ELSE LET rows == ProcessPairs(wb.rows, room_numbers_list, work_orders_list,
                                      Strptime(rq.completion_date), 1)
             IN  [raised |-> 0, file |-> SaveWorkbook([wb EXCEPT !.rows = rows])]

create_work_order(f, rq) ==
    LET room_numbers_list == SplitStrip(rq.room_numbers)
        work_orders_list == SplitStrip(rq.work_orders)
    IN  IF Len(room_numbers_list) # Len(work_orders_list)
        THEN [raised |-> 400, file |-> f]
        ELSE IF ~StrptimeOk(rq.completion_date)
        THEN [raised |-> 400, file |-> f]
        ELSE LET wb == ensure_excel_file(f)
                 rows == ProcessPairs(wb.rows, room_numbers_list, work_orders_list,
                                      Strptime(rq.completion_date), 1)
             IN  [raised |-> 0, file |-> SaveWorkbook([wb EXCEPT !.rows = rows])]

remove_work_order(f, rq) ==
    IF ~f.exists THEN [raised |-> 404, file |-> f]
    ELSE LET row_to_delete == FindRow(f.rows, rq.room_number) IN
         IF row_to_delete # 0
         THEN [raised |-> 0,
               file |-> SaveWorkbook([f EXCEPT !.rows = DeleteRow(f.rows, row_to_delete)])]
         ELSE [raised |-> 404, file |-> f]

\* edit_work_order with line 350 appending to the text as line 126 does.
edit_work_order_append(f, rq) ==
    IF ~(Truthy(rq.room_number) /\ Truthy(rq.work_order) /\ Truthy(rq.completion_date))
    THEN [raised |-> 400, file |-> f]
    ELSE IF ~StrptimeOk(rq.completion_date) THEN [raised |-> 400, file |-> f]
    ELSE IF ~f.exists THEN [raised |-> 404, file |-> f]
    ELSE LET i == FindRow(f.rows, rq.room_number) IN
         IF i = 0 THEN [raised |-> 404, file |-> f]
         ELSE [raised |-> 0,
               file |-> SaveWorkbook([f EXCEPT !.rows[i].text = Str(@) \o <<" / ">> \o rq.work_order,
                                               !.rows[i].date = Strptime(rq.completion_date)])]

edit_work_order(f, rq) ==
    IF ~(Truthy(rq.room_number) /\ Truthy(rq.work_order) /\ Truthy(rq.completion_date))
    THEN [raised |-> 400, file |-> f]
    ELSE IF ~StrptimeOk(rq.completion_date) THEN [raised |-> 400, file |-> f]
    ELSE IF ~f.exists THEN [raised |-> 404, file |-> f]
    ELSE LET i == FindRow(f.rows, rq.room_number) IN
         IF i = 0 THEN [raised |-> 404, file |-> f]
         ELSE [raised |-> 0,
               file |-> SaveWorkbook([f EXCEPT !.rows[i].text = rq.work_order,
                                               !.rows[i].date = Strptime(rq.completion_date)])]

update_room_status(f, rq) ==
    LET best_room == Get(rq.best_room, <<"No">>) IN
    IF ~(Truthy(rq.room_number) /\ Truthy(rq.status))
    THEN [raised |-> 400, file |-> f]
    ELSE IF ~f.exists THEN [raised |-> 404, file |-> f]
    ELSE LET i == FindRow(f.rows, rq.room_number) IN
         IF i = 0 THEN [raised |-> 404, file |-> f]
         ELSE [raised |-> 0,
               file |-> SaveWorkbook([f EXCEPT !.rows[i].status = rq.status,
                                               !.rows[i].best = best_room])]

\* Line 305: the row's first four cells all hold a value.
HasData(r) == r.room # None /\ r.text # None /\ r.date # None /\ r.status # None

\* Lines 306-312: the record list() returns for a row.
ListedRecord(f, r) ==
    [room_number |-> Str(r.room), work_order |-> Str(r.text),
     completion_date |-> format_cell_date(r.date), status |-> Str(r.status),
     best_room |-> IF Truthy(r.best) THEN Str(r.best) ELSE <<"No">>]

RECURSIVE ListFrom(_, _)
ListFrom(f, i) ==
    IF i > Len(f.rows) THEN <<>>
    ELSE (IF HasData(f.rows[i]) THEN <<ListedRecord(f, f.rows[i])>> ELSE <<>>)
         \o ListFrom(f, i + 1)

\* The work_orders list() returns for a file.
Listing(f) == IF ~f.exists THEN <<>> ELSE ListFrom(f, 1)

\* get_work_orders calling ensure_excel_file for the path (as line 110 does).
get_work_orders_vivify(f) ==
    [raised |-> 0, file |-> ensure_excel_file(f), work_orders |-> Listing(ensure_excel_file(f))]

\* get_work_orders: the empty list without a store, else the listing; the
\* file is read only.
get_work_orders(f) == [raised |-> 0, file |-> f, work_orders |-> Listing(f)]

\* generate_report: 404 without a store, else the document is written; the
\* store is read only.
generate_report(f) == IF ~f.exists THEN [raised |-> 404, file |-> f] ELSE [raised |-> 0, file |-> f]

\* "except Exception as e: raise HTTPException(status_code=500, ...)" around
\* every handler body: HTTPException is an Exception, so the 400 and 404
\* raised in the body are caught here too.
ExceptClause(raised) == IF raised = 0 THEN 200 ELSE 500

-----------------------------------------------------------------------------
(* Requests *)

Props == {"NY198"}

\* The items of a room list (" 101", "" and "None"), and the room numbers of
\* the other requests.
RoomItems == {<<" ", "101">>, <<>>, <<"None">>}
RoomNumbers == {<<"101">>, <<"102">>, <<"None">>, <<>>}

\* The i-th item of a work-order list ("sink ", "door ", ...), and the list
\* of k items.
TextWords == <<"sink", "door", "lamp">>
TextItem(i) == <<TextWords[((i - 1) % Len(TextWords)) + 1], " ">>
TextList(k) == [i \in 1..k |-> TextItem(i)]

\* "2025-3-1", "2025-04-02" and "13-2025-01"
Date1 == <<Field(4, 2025), Field(1, 3), Field(1, 1)>>
Date2 == <<Field(4, 2025), Field(2, 4), Field(2, 2)>>
BadDate == <<Field(2, 13), Field(4, 2025), Field(2, 1)>>

Lists(S, k) == [1..k -> S]

\* The submit requests: lists of the same length with a well-formed date,
\* one room with an empty text, lists of different lengths, and a malformed
\* date.
SubmitInputs ==
    UNION {Lists(RoomItems, k) \X {TextList(k)} \X {Date1} : k \in 1..MaxList}
    \cup {<<<<r>>, <<<<>>>>, Date1>> : r \in RoomItems}
    \cup UNION {Lists({<<"101">>}, k) \X {TextList(j)} \X {Date1} :
                   <<k, j>> \in {kj \in (1..MaxList) \X (1..MaxList) : kj[1] # kj[2]}}
    \cup {<<<<<<"101">>>>, <<TextItem(1)>>, BadDate>>}

\* The edit requests: a well-formed one for every room, one without text
\* and one with a malformed date.
EditInputs ==
    (RoomNumbers \X {<<"paint">>} \X {Date2})
    \cup {<<<<"101">>, <<>>, Date2>>, <<<<"101">>, <<"paint">>, BadDate>>}

\* The status requests: with and without the best-room flag for every room,
\* and one without status.
StatusInputs ==
    (RoomNumbers \X {<<"Done">>} \X {<<"Yes">>, Absent})
    \cup {<<<<"101">>, Absent, Absent>>}

NoBody == <<>>

NoRequest == [op |-> "none"]
NoResponse == [raised |-> 0, code |-> 0, work_orders |-> NoBody]

\* The service is between two requests.
Idle == req = NoRequest

\* A request is handled from its first line to its response: the file the
\* handler leaves, and the status code the client gets.
Done(rq, out, body) ==
    /\ nreq < MaxRequests
    /\ files' = [files EXCEPT ![rq.property_code] = out.file]
    /\ prev' = files
    /\ req' = rq
    /\ resp' = [raised |-> out.raised, code |-> ExceptClause(out.raised), work_orders |-> body]
    /\ nreq' = nreq + 1
    /\ UNCHANGED <<wrapVars, workerVars>>

\* The response has gone to the client; the next request may come.
Deliver ==
    /\ ~Idle
    /\ prev' = files
    /\ req' = NoRequest
    /\ resp' = NoResponse
    /\ UNCHANGED <<files, nreq, wrapVars, workerVars>>

Submit ==
    \E p \in Props, in \in SubmitInputs :
        LET rq == [op |-> "submit", property_code |-> p, room_numbers |-> in[1],
                   work_orders |-> in[2], completion_date |-> in[3]]
        IN  /\ Idle
            /\ Done(rq, create_work_order(files[p], rq), NoBody)

Remove ==
    \E p \in Props, r \in RoomNumbers :
        LET rq == [op |-> "remove", property_code |-> p, room_number |-> r]
        IN  /\ Idle
            /\ Done(rq, remove_work_order(files[p], rq), NoBody)

Edit ==
    \E p \in Props, in \in EditInputs :
        LET rq == [op |-> "edit", property_code |-> p, room_number |-> in[1],
                   work_order |-> in[2], completion_date |-> in[3]]
        IN  /\ Idle
            /\ Done(rq, edit_work_order(files[p], rq), NoBody)

UpdateStatus ==
    \E p \in Props, in \in StatusInputs :
        LET rq == [op |-> "update_status", property_code |-> p, room_number |-> in[1],
                   status |-> in[2], best_room |-> in[3]]
        IN  /\ Idle
            /\ Done(rq, update_room_status(files[p], rq), NoBody)

List ==
    \E p \in Props :
        LET rq == [op |-> "list", property_code |-> p]
            out == get_work_orders(files[p])
        IN  /\ Idle
            /\ Done(rq, out, out.work_orders)

Report ==
    \E p \in Props :
        LET rq == [op |-> "report", property_code |-> p]
        IN  /\ Idle
            /\ Done(rq, generate_report(files[p]), NoBody)

\* No request has come yet.
NoRequests ==
    /\ prev = [p \in Props |-> NoFile]
    /\ req = NoRequest
    /\ resp = NoResponse
    /\ nreq = 0

\* The renderer is not at work.
NoWrap ==
    /\ words = <<>>
    /\ word_index = 0
    /\ current_line = <<>>
    /\ lines = <<>>
    /\ wrapped = FALSE

\* No request is in the hands of a worker process.
NoHandlers ==
    /\ handlers = <<>>
    /\ history = <<>>

\* The store a submit of two rooms and an update_status of the second leave.
StoredFile ==
    update_room_status(
        create_work_order(NoFile, [room_numbers |-> <<<<"102">>>>,
                                   work_orders |-> <<<<"door">>>>,
                                   completion_date |-> Date1]).file,
        [room_number |-> <<"102">>, status |-> <<"Done">>, best_room |-> <<"Yes">>]).file

\* At start-up a property has no store, or the one an earlier run has left.
Init ==
    /\ files \in [Props -> {NoFile, StoredFile}]
    /\ NoRequests
    /\ NoWrap
    /\ NoHandlers

Next == Submit \/ Remove \/ Edit \/ UpdateStatus \/ List \/ Report \/ Deliver

Spec == Init /\ [][Next]_vars

-----------------------------------------------------------------------------
(* The word wrap of the report renderer, lines 242-256.  A word is a        *)
(* sequence of glyphs; a line is the words of current_line joined by " ".   *)

MaxWords == 3

\* The width limit and the font size of line 250.
WrapBudget == 230
FontSize == 10

\* A word of n glyphs g.
Rep(g, n) == [i \in 1..n |-> g]

\* The words a work-order text is made of (line 244).
WrapWords == {Rep("i", 3), Rep("W", 12), Rep("W", 13), Rep("W", 25)}

\* The advance widths of Helvetica's glyphs, in 1/1000 of the font size.
GlyphWidth(g) == CASE g = " " -> 278
                   [] g = "i" -> 222
                   [] g = "W" -> 944

\* c.stringWidth(s, "Helvetica", 10) of line 250, in 1/1000 point.
RECURSIVE stringWidth(_)
stringWidth(s) ==
    IF s = <<>> THEN 0 ELSE GlyphWidth(Head(s)) * FontSize + stringWidth(Tail(s))

\* ' '.join(ws), lines 250, 252, 256.
RECURSIVE Join(_)
Join(ws) ==
    IF ws = <<>> THEN <<>>
    ELSE IF Len(ws) = 1 THEN ws[1]
    ELSE ws[1] \o <<" ">> \o Join(Tail(ws))

\* The test of line 250.
TooWide(ws) == stringWidth(Join(ws)) > WrapBudget * 1000

\* Lines 248-253: one turn of the loop over the words.
WrapWord ==
    /\ ~wrapped
    /\ word_index < Len(words)
    /\ LET word == words[word_index + 1] IN
       IF TooWide(Append(current_line, word))
       THEN /\ lines' = Append(lines, Join(current_line))
            /\ current_line' = <<word>>
       ELSE /\ lines' = lines
            /\ current_line' = Append(current_line, word)
    /\ word_index' = word_index + 1
    /\ UNCHANGED <<words, wrapped, files, requestVars, workerVars>>

\* Lines 255-256: the words left in current_line make the last line.
WrapFlush ==
    /\ ~wrapped
    /\ word_index = Len(words)
    /\ lines' = IF current_line # <<>> THEN Append(lines, Join(current_line)) ELSE lines
    /\ wrapped' = TRUE
    /\ UNCHANGED <<words, word_index, current_line, files, requestVars, workerVars>>

\* The renderer starts on a text of up to MaxWords words (lines 243-246).
InitWrap ==
    /\ files = [p \in Props |-> NoFile]
    /\ NoRequests
    /\ NoHandlers
    /\ words \in UNION {[1..k -> WrapWords] : k \in 0..MaxWords}
    /\ word_index = 0
    /\ current_line = <<>>
    /\ lines = <<>>
    /\ wrapped = FALSE

NextWrap == WrapWord \/ WrapFlush

SpecWrap == InitWrap /\ [][NextWrap]_vars

-----------------------------------------------------------------------------
(* Handlers in several worker processes over one uploads directory.  A      *)
(* handler has no await between its first and its last access to the file   *)
(* (lines 110-139, 339-358), so the requests of one process run one after   *)
(* the other; those of different processes interleave at each file access.  *)

NumRequests == 2
NumWorkers == 2

Requests == 1..NumRequests

\* The work-order text of request r, unlike that of any other request.
WorkerText(r) == <<"job", ToString(r)>>

WorkerRequest(r, op) ==
    IF op = "submit"
    THEN [op |-> "submit", property_code |-> "NY198", room_numbers |-> <<<<"101">>>>,
          work_orders |-> <<WorkerText(r)>>, completion_date |-> Date1]
    ELSE [op |-> "edit", property_code |-> "NY198", room_number |-> <<"101">>,
          work_order |-> WorkerText(r), completion_date |-> Date2]

\* A store with one record, as a submit leaves it.
SeededFile ==
    create_work_order(NoFile, [op |-> "submit", property_code |-> "NY198",
                               room_numbers |-> <<<<"101">>>>, work_orders |-> <<<<"sink">>>>,
                               completion_date |-> Date1]).file

Handler(wb, rq) ==
    IF rq.op = "submit" THEN create_work_order(wb, rq) ELSE edit_work_order(wb, rq)

\* The checks before the load: lines 94-107 of a submit, 328-341 of an edit.
Rejected(f, rq) ==
    IF rq.op = "submit" THEN create_work_order(f, rq).raised # 0
    ELSE edit_work_order(f, rq).raised = 400 \/ ~f.exists

\* The workbook a handler changes and saves is the one it loaded (lines 111,
\* 139; 343, 358), whatever the file holds by then.
WorkbookAtSave_reload(loaded, onDisk) == onDisk

WorkbookAtSave(loaded, onDisk) == loaded

\* The process w is within a handler.
Running(w) ==
    \E r \in Requests : handlers[r].worker = w /\ handlers[r].pc \notin {"new", "done"}

\* The handler starts: its checks, and os.path.exists of line 54 or 339.
WorkerBegin ==
    \E r \in Requests :
        LET h == handlers[r]
            f == files[h.rq.property_code]
        IN  /\ h.pc = "new"
            /\ ~Running(h.worker)
            /\ handlers' = [handlers EXCEPT
                   ![r].pc = IF Rejected(f, h.rq) THEN "done"
                             ELSE IF h.rq.op = "submit" /\ ~f.exists THEN "create"
                             ELSE "load",
                   ![r].code = IF Rejected(f, h.rq) THEN ExceptClause(400) ELSE 0]
            /\ UNCHANGED <<files, history, requestVars, wrapVars>>

\* Lines 55-61: ensure_excel_file saves a workbook with the header row.
WorkerCreate ==
    \E r \in Requests :
        LET h == handlers[r] IN
        /\ h.pc = "create"
        /\ files' = [files EXCEPT ![h.rq.property_code] = NewWorkbook]
        /\ handlers' = [handlers EXCEPT ![r].pc = "load"]
        /\ history' = Append(history, <<r, "create">>)
        /\ UNCHANGED <<requestVars, wrapVars>>

\* Lines 111 and 343: load_workbook.
WorkerLoad ==
    \E r \in Requests :
        LET h == handlers[r] IN
        /\ h.pc = "load"
        /\ handlers' = [handlers EXCEPT ![r].pc = "save",
                                        ![r].wb = files[h.rq.property_code]]
        /\ history' = Append(history, <<r, "load">>)
        /\ UNCHANGED <<files, requestVars, wrapVars>>

\* Lines 115-141 and 346-359: the change of the loaded workbook, wb.save and
\* the response.
WorkerSave ==
    \E r \in Requests :
        LET h == handlers[r]
            p == h.rq.property_code
            out == Handler(WorkbookAtSave(h.wb, files[p]), h.rq)
        IN  /\ h.pc = "save"
            /\ handlers' = [handlers EXCEPT ![r].pc = "done",
                                            ![r].code = ExceptClause(out.raised)]
            /\ IF out.raised = 0
               THEN /\ files' = [files EXCEPT ![p] = out.file]
                    /\ history' = Append(history, <<r, "save">>)
               ELSE UNCHANGED <<files, history>>
            /\ UNCHANGED <<requestVars, wrapVars>>

\* NumRequests submits and edits of room 101 have come, each to one of the
\* processes; the property has no store, or one with a record of the room.
InitWorkers ==
    /\ files \in {[p \in Props |-> NoFile], [p \in Props |-> SeededFile]}
    /\ NoRequests
    /\ NoWrap
    /\ \E ops \in [Requests -> {"submit", "edit"}], ws \in [Requests -> 1..NumWorkers] :
           handlers = [r \in Requests |->
                          [worker |-> ws[r], rq |-> WorkerRequest(r, ops[r]),
                           pc |-> "new", wb |-> NoFile, code |-> 0]]
    /\ history = <<>>

NextWorkers == WorkerBegin \/ WorkerCreate \/ WorkerLoad \/ WorkerSave

SpecWorkers == InitWorkers /\ [][NextWorkers]_vars

-----------------------------------------------------------------------------
(* What the claims speak of, read off the last request and its response    *)

Before == prev[req.property_code]
After == files[req.property_code]

RowsOf(f) == IF f.exists THEN f.rows ELSE <<>>

\* The last request was `op` and the client got a success response.
Succeeded(op) == req.op = op /\ resp.code = 200

\* The last request got an error response.
Failed == req # NoRequest /\ resp.code # 200

\* The first record of `rows` whose room number reads as `room` (0: none).
FirstMatching(rows, room) ==
    LET S == {i \in 1..Len(rows) : Str(rows[i].room) = room}
    IN  IF S = {} THEN 0 ELSE CHOOSE i \in S : \A j \in S : i <= j

\* " / " + text for every pair k, k+1, ... of the lists that names `room`.
RECURSIVE Appended(_, _, _, _)
Appended(rooms, texts, room, k) ==
    IF k > Len(rooms) THEN <<>>
    ELSE (IF rooms[k] = room THEN <<" / ">> \o texts[k] ELSE <<>>)
         \o Appended(rooms, texts, room, k + 1)

\* A request field is missing.
Missing(v) == v = <<>> \/ v = Absent

-----------------------------------------------------------------------------
(* C1 *)

\* C1 (as claimed): a submit with lists of different length or a malformed
\* date, and an edit or update_status with a missing field or a malformed
\* date, get a 400-class response; remove, edit, update_status and report on
\* a property without store, and remove, edit, update_status on a room
\* without record, get 404; no other request gets an error response.
C1_ErrorClasses ==
    LET malformed ==
            \/ /\ req.op = "submit"
               /\ \/ Len(req.room_numbers) # Len(req.work_orders)
                  \/ ~StrptimeOk(req.completion_date)
            \/ /\ req.op = "edit"
               /\ \/ Missing(req.room_number) \/ Missing(req.work_order)
                  \/ ~StrptimeOk(req.completion_date)
            \/ /\ req.op = "update_status"
               /\ (Missing(req.room_number) \/ Missing(req.status))
        notfound ==
            /\ ~malformed
            /\ \/ req.op \in {"remove", "edit", "update_status", "report"} /\ ~Before.exists
               \/ /\ req.op \in {"remove", "edit", "update_status"}
                  /\ Before.exists
                  /\ FirstMatching(Before.rows, req.room_number) = 0
    IN  req # NoRequest =>
            /\ malformed => resp.code \in 400..499
            /\ notfound => resp.code = 404
            /\ ~malformed /\ ~notfound => resp.code = 200

-----------------------------------------------------------------------------
(* C2 *)

\* The text a cell holds: none when the cell is empty.
CellText(v) == IF v = None THEN <<>> ELSE v

\* C2 (as claimed): after a successful submit, for every (room, text) pair
\* whose room had a record, the first matching record's text is the old text
\* + " / " + the pair's text (each of the pairs' texts in list order, when
\* the request names the room more than once), its date the submitted date,
\* its status and best-room flag as before.
C2_Append ==
    Succeeded("submit") =>
        LET rooms == SplitStrip(req.room_numbers)
            texts == SplitStrip(req.work_orders)
            old == RowsOf(Before)
        IN  \A k \in 1..Len(rooms) :
                LET i == FirstMatching(old, rooms[k]) IN
                i # 0 =>
                    /\ After.rows[i].text =
                           CellText(old[i].text) \o Appended(rooms, texts, rooms[k], 1)
                    /\ After.rows[i].date = Strptime(req.completion_date)
                    /\ After.rows[i].status = old[i].status
                    /\ After.rows[i].best = old[i].best

\* What the code does: the same with the old text read by str(), which
\* gives "None" for an empty cell.
C2_AppendToStr ==
    Succeeded("submit") =>
        LET rooms == SplitStrip(req.room_numbers)
            texts == SplitStrip(req.work_orders)
            old == RowsOf(Before)
        IN  \A k \in 1..Len(rooms) :
                LET i == FirstMatching(old, rooms[k]) IN
                i # 0 =>
                    /\ After.rows[i].room = old[i].room
                    /\ After.rows[i].text = Str(old[i].text) \o Appended(rooms, texts, rooms[k], 1)
                    /\ After.rows[i].date = Strptime(req.completion_date)
                    /\ After.rows[i].status = old[i].status
                    /\ After.rows[i].best = old[i].best

-----------------------------------------------------------------------------
(* C3 *)

\* The rooms k, k+1, ... of the list that had no record in `old`, each once,
\* in the order of their first occurrence.
RECURSIVE NewRooms(_, _, _, _)
NewRooms(rooms, old, k, seen) ==
    IF k > Len(rooms) THEN <<>>
    ELSE IF FirstMatching(old, rooms[k]) = 0 /\ rooms[k] \notin seen
    THEN <<rooms[k]>> \o NewRooms(rooms, old, k + 1, seen \cup {rooms[k]})
    ELSE NewRooms(rooms, old, k + 1, seen)

\* The text submitted for `room`: the text of its pair (of its pairs, joined
\* by " / ", when the list names the room more than once).
SubmittedText(rooms, texts, room) ==
    LET k == CHOOSE k \in 1..Len(rooms) : rooms[k] = room /\ \A j \in 1..(k - 1) : rooms[j] # room
    IN  texts[k] \o Appended(rooms, texts, room, k + 1)

\* C3 (as claimed): after a successful submit, list() returns, after the
\* records of the rooms present before, exactly one record per submitted
\* room that had no record, in submission order, with the submitted text,
\* the submitted date as YYYY-MM-DD, status "Pending" and best_room "No".
C3_RoundTrip ==
    Succeeded("submit") =>
        LET rooms == SplitStrip(req.room_numbers)
            texts == SplitStrip(req.work_orders)
            old == RowsOf(Before)
            new == NewRooms(rooms, old, 1, {})
            kept == [exists |-> TRUE, rows |-> SubSeq(After.rows, 1, Len(old))]
        IN  Listing(After) =
                Listing(kept) \o
                [j \in 1..Len(new) |->
                    [room_number |-> new[j],
                     work_order |-> SubmittedText(rooms, texts, new[j]),
                     completion_date |-> format_cell_date(Strptime(req.completion_date)),
                     status |-> <<"Pending">>,
                     best_room |-> <<"No">>]]

-----------------------------------------------------------------------------
(* C4 *)

RECURSIVE Without(_, _)
Without(recs, room) ==
    IF recs = <<>> THEN <<>>
    ELSE (IF Head(recs).room_number = room THEN <<>> ELSE <<Head(recs)>>)
         \o Without(Tail(recs), room)

\* C4 (as claimed): after a successful remove(room), list() holds no record
\* of that room, and is the list() of before without the removed record,
\* the other records unchanged and in the same order.
C4_Removed ==
    Succeeded("remove") =>
        /\ \A j \in 1..Len(Listing(After)) : Listing(After)[j].room_number # req.room_number
        /\ Listing(After) = Without(Listing(Before), req.room_number)

-----------------------------------------------------------------------------
(* C7 *)

\* C7 (as claimed): list() on a property without store leaves a store that
\* exists and holds the header row only.
C7_ListCreatesStore ==
    (req.op = "list" /\ ~Before.exists) => (After.exists /\ After.rows = <<>>)

\* C7 (amended): list() on a property without store returns the empty list
\* and leaves the property without store.
C7_ListLeavesNoStore ==
    (req.op = "list" /\ ~Before.exists) =>
        /\ ~After.exists
        /\ resp.code = 200
        /\ resp.work_orders = <<>>

\* list() has been called on a property without store.
C7_Witness == req.op = "list" /\ ~Before.exists /\ resp.code = 200

-----------------------------------------------------------------------------
(* C8 *)

-----------------------------------------------------------------------------
(* C9 *)

\* C9 (as claimed): no two records of a store have the same room number.
C9_UniqueRooms ==
    \A p \in Props :
        files[p].exists =>
            \A i, j \in 1..Len(files[p].rows) :
                i # j => files[p].rows[i].room # files[p].rows[j].room

-----------------------------------------------------------------------------
(* C10 *)

\* C10: a request that gets an error response leaves every store as it was,
\* and creates none.
C10_ErrorLeavesStore == Failed => files = prev

\* A submit on a property without store has been rejected.
C10_Witness == req.op = "submit" /\ Failed /\ ~Before.exists

-----------------------------------------------------------------------------
(* C6 *)

\* C6 (as claimed): a text whose words, on one line, are wider than the
\* budget is wrapped into at least 2 lines, each no wider than the budget,
\* which joined by single spaces are the text's words joined by single
\* spaces.
C6_Wrap ==
    (wrapped /\ TooWide(words)) =>
        /\ Len(lines) >= 2
        /\ \A i \in 1..Len(lines) : stringWidth(lines[i]) <= WrapBudget * 1000
        /\ Join(lines) = Join(words)

\* The same for the texts none of whose words is alone wider than the budget.
C6_WrapOfFittingWords ==
    (wrapped /\ TooWide(words) /\ \A i \in 1..Len(words) : ~TooWide(<<words[i]>>)) =>
        /\ Len(lines) >= 2
        /\ \A i \in 1..Len(lines) : stringWidth(lines[i]) <= WrapBudget * 1000
        /\ Join(lines) = Join(words)

-----------------------------------------------------------------------------
(* C5 *)

\* The place of event e in the history (0: it has not happened).
At(e) ==
    LET S == {i \in 1..Len(history) : history[i] = e}
    IN  IF S = {} THEN 0 ELSE CHOOSE i \in S : TRUE

\* The text of request r is in a record of the store.
Holds(f, r) ==
    f.exists /\ \E i \in 1..Len(f.rows) :
                    \E j \in 1..Len(f.rows[i].text) : f.rows[i].text[j] = ToString(r)

\* b loaded the store before a saved it, and saved it after a did, as the
\* last to write the file.
SavedOver(a, b) ==
    /\ a # b
    /\ At(<<a, "save">>) # 0
    /\ At(<<b, "load">>) # 0
    /\ At(<<b, "load">>) < At(<<a, "save">>)
    /\ At(<<a, "save">>) < At(<<b, "save">>)
    /\ At(<<b, "save">>) = Len(history)

====
